---- MODULE Spec2Model ----
(***************************************************************************)
(* A model of home_secret_toml: the dotted-path lookup (_deep_get), the    *)
(* lazy Token, the HomeSecretToml store with its memoized data and its two *)
(* caches, the leaf walk, the generation of the enum file, and the         *)
(* listing with its facet matcher and its masking.                         *)
(*                                                                         *)
(* Python strings are sequences of one-character strings, so that          *)
(* str.split, str.join and the f-strings are computed and not assumed.     *)
(* A dict is a sequence of <<key, value>> pairs with distinct keys, in     *)
(* insertion order (the order dict.items() iterates in).                   *)
(***************************************************************************)
EXTENDS Integers, Sequences, FiniteSets, TLC

(***************************************************************************)
(* Bounds of the model.                                                    *)
(***************************************************************************)
\* Largest number of keys (at all levels together) of a generated mapping.
MaxNodes == 3
\* Largest number of dot-separated segments of a generated path.
MaxSegs == 3
\* Largest length of a generated query or key string.
MaxStr == 3
\* Largest number of facets handed to _matches_all_facets.
MaxFacets == 2
\* Largest length of a string handed to mask_value.
MaxSecretLen == 9

(***************************************************************************)
(* String literals of the source.                                          *)
(***************************************************************************)
DOT == "."
UNKNOWN == <<".", ".", ".">>
DESCRIPTION == <<"d", "e", "s", "c", "r", "i", "p", "t", "i", "o", "n">>
KeyErrorPrefix == <<"K", "e", "y", " ">>
KeyErrorSuffix ==
    <<" ", "n", "o", "t", " ", "f", "o", "u", "n", "d", " ", "i", "n", " ",
      "t", "h", "e", " ", "p", "r", "o", "v", "i", "d", "e", "d", " ",
      "d", "a", "t", "a", ".">>

(***************************************************************************)
(* Values of a parsed TOML document.                                       *)
(***************************************************************************)
StrV(s) == [tag |-> "str", s |-> s]
IntV(n) == [tag |-> "int", n |-> n]
ListV(xs) == [tag |-> "list", xs |-> xs]
DictV(items) == [tag |-> "dict", items |-> items]
BoolV(b) == [tag |-> "bool", b |-> b]
\* A float, by its decimal digits.
FloatV(digits) == [tag |-> "float", digits |-> digits]

\* isinstance(value, dict)
IsDict(value) == value.tag = "dict"

\* part in value, for a dict value
HasKey(d, k) == \E i \in 1..Len(d.items) : d.items[i][1] = k

\* value[part], for a dict value holding the key
GetItem(d, k) == d.items[CHOOSE i \in 1..Len(d.items) : d.items[i][1] = k][2]

(***************************************************************************)
(* Outcomes of a call: a returned value or a raised exception.             *)
(***************************************************************************)
Return(v) == [kind |-> "return", value |-> v]
Raise(exc, msg) == [kind |-> "raise", exc |-> exc, msg |-> msg]

(***************************************************************************)
(* str.split(sep), sep.join(parts) and repr(str).                          *)
(***************************************************************************)
RECURSIVE SplitFrom(_, _, _, _)
\* Scans s from position i on; cur is the part read since the last sep.
SplitFrom(s, sep, i, cur) ==
    IF i > Len(s) THEN <<cur>>
    ELSE IF s[i] = sep THEN <<cur>> \o SplitFrom(s, sep, i + 1, <<>>)
    ELSE SplitFrom(s, sep, i + 1, Append(cur, s[i]))

\* A variant that drops the empty parts, as str.split() without a separator
\* does: the empty string then has no part at all.
SplitDropsEmptyParts(s, sep) ==
    LET NotEmpty(part) == part # <<>>
    IN  SelectSeq(SplitFrom(s, sep, 1, <<>>), NotEmpty)

Split(s, sep) == SplitFrom(s, sep, 1, <<>>)

RECURSIVE Join(_, _)
Join(parts, sep) ==
    IF Len(parts) = 0 THEN <<>>
    ELSE IF Len(parts) = 1 THEN parts[1]
    ELSE parts[1] \o <<sep>> \o Join(Tail(parts), sep)

\* repr of a str holding no quote, backslash or unprintable character
Repr(s) == <<"'">> \o s \o <<"'">>

(***************************************************************************)
(* _deep_get(dct, path)                                                    *)
(***************************************************************************)
\* A variant naming only the missing part.
KeyErrorMissingPartOnly(parts, i) ==
    Raise("KeyError", KeyErrorPrefix \o Repr(parts[i]) \o KeyErrorSuffix)

\* The else branch: current_path = ".".join(parts); raise KeyError(...)
KeyErrorAt(parts, i) ==
    Raise("KeyError",
          KeyErrorPrefix \o Repr(Join(SubSeq(parts, 1, i), DOT)) \o KeyErrorSuffix)

RECURSIVE DeepGetLoop(_, _, _)
\* The for loop, about to read the i-th part with value as the current value.
DeepGetLoop(value, parts, i) ==
    IF i > Len(parts) THEN Return(value)
    ELSE IF IsDict(value) /\ HasKey(value, parts[i])
         THEN DeepGetLoop(GetItem(value, parts[i]), parts, i + 1)
         ELSE KeyErrorAt(parts, i)

\* A variant whose loop leaves out the last part.
DeepGetSkipsLastPart(dct, path) ==
    LET parts == Split(path, DOT)
    IN  DeepGetLoop(dct, SubSeq(parts, 1, Len(parts) - 1), 1)

_deep_get(dct, path) == DeepGetLoop(dct, Split(path, DOT), 1)

(***************************************************************************)
(* walk(dct, _parent_path)                                                 *)
(***************************************************************************)
RECURSIVE walk(_, _)
RECURSIVE WalkItems(_, _, _)
\* A variant that ends the loop at a placeholder instead of continuing.
WalkItemsStopAtUnknown(items, _parent_path, i) ==
    IF i > Len(items) THEN <<>>
    ELSE LET key == items[i][1]
             value == items[i][2]
             path == IF _parent_path # <<>>
                     THEN _parent_path \o <<DOT>> \o key
                     ELSE key
         IN  IF IsDict(value)
             THEN walk(value, path) \o WalkItems(items, _parent_path, i + 1)
             ELSE IF key = DESCRIPTION
             THEN WalkItems(items, _parent_path, i + 1)
             ELSE IF value = StrV(UNKNOWN) THEN <<>>
             ELSE << <<path, value>> >> \o WalkItems(items, _parent_path, i + 1)

\* The for loop over dct.items(), about to read the i-th item.
WalkItems(items, _parent_path, i) ==
    IF i > Len(items) THEN <<>>
    ELSE LET key == items[i][1]
             value == items[i][2]
             path == IF _parent_path # <<>>
                     THEN _parent_path \o <<DOT>> \o key
                     ELSE key
             yielded == IF IsDict(value) THEN walk(value, path)
                        ELSE IF key = DESCRIPTION THEN <<>>
                        ELSE IF value = StrV(UNKNOWN) THEN <<>>
                        ELSE << <<path, value>> >>
         IN  yielded \o WalkItems(items, _parent_path, i + 1)

walk(dct, _parent_path) == WalkItems(dct.items, _parent_path, 1)

(***************************************************************************)
(* The inputs: mappings of at most MaxNodes keys and paths of at most      *)
(* MaxSegs segments.                                                       *)
(***************************************************************************)
KeyA == <<"a">>
KeyB == <<"b">>
Keys == {KeyA, KeyB, DESCRIPTION}
Leaves == {StrV(<<"x">>), StrV(UNKNOWN)}

RECURSIVE ItemsOfSize(_, _)
RECURSIVE ValuesOfSize(_)
\* The item sequences of exactly n keys in all, the top-level keys from keys.
ItemsOfSize(n, keys) ==
    IF n = 0 THEN {<<>>}
    ELSE UNION { UNION { { << <<k, v>> >> \o rest :
                             v \in ValuesOfSize(j),
                             rest \in ItemsOfSize(n - j, keys \ {k}) } :
                         j \in 1..n } :
                 k \in keys }

\* The values that take n keys, their own key included.
ValuesOfSize(n) ==
    IF n = 1 THEN Leaves \cup {DictV(<<>>)}
    ELSE {DictV(items) : items \in ItemsOfSize(n - 1, Keys)}

\* Mappings beyond the generated ones: a dotted key, an empty key, a number,
\* a list, and the shapes of the tests' mappings (a placeholder before its
\* sibling and before a later key of the parent; descriptions at two levels).
FixtureMappings ==
    { DictV(<< <<<<"a", ".", "b">>, StrV(<<"x">>)>> >>),
      DictV(<< <<<<"a", ".", "b">>, StrV(<<"x">>)>>,
               <<KeyA, DictV(<< <<KeyB, IntV(1)>> >>)>> >>),
      DictV(<< <<<<>>, StrV(<<"x">>)>> >>),
      DictV(<< <<<<>>, DictV(<< <<KeyA, StrV(<<"x">>)>> >>)>>,
               <<KeyA, ListV(<<StrV(UNKNOWN)>>)>> >>),
      DictV(<< <<KeyA, IntV(1)>>, <<DESCRIPTION, ListV(<<>>)>> >>),
      DictV(<< <<KeyA, DictV(<< <<KeyA, StrV(UNKNOWN)>>,
                                <<KeyB, StrV(<<"x">>)>> >>)>>,
               <<KeyB, IntV(1)>> >>),
      DictV(<< <<KeyA, DictV(<< <<DESCRIPTION, StrV(<<"x">>)>>,
                                <<KeyB, DictV(<< <<DESCRIPTION, StrV(<<"x">>)>>,
                                                 <<KeyA, StrV(<<"x">>)>> >>)>> >>)>> >>) }

Mappings ==
    {DictV(items) : items \in UNION {ItemsOfSize(n, Keys) : n \in 0..MaxNodes}}
        \cup FixtureMappings

RECURSIVE SegSeqs(_)
\* The sequences of exactly n segments.
SegSeqs(n) ==
    IF n = 0 THEN {<<>>}
    ELSE {Append(s, k) : s \in SegSeqs(n - 1), k \in Keys}

Paths == {Join(s, DOT) : s \in UNION {SegSeqs(n) : n \in 0..MaxSegs}}

(***************************************************************************)
(* Token: a dataclass of two fields, data and path.                        *)
(***************************************************************************)
Token(d, p) == [tag |-> "Token", data |-> d, path |-> p]

\* A variant resolving the path when the token is built.
TokenInitEager(d, p) ==
    LET r == _deep_get(d, p)
    IN  IF r.kind = "raise" THEN r ELSE Return(Token(d, p))

\* Token(data=..., path=...): the generated __init__ stores both fields.
TokenInit(d, p) == Return(Token(d, p))

\* Token.v
TokenV(tk) == _deep_get(tk.data, tk.path)

(***************************************************************************)
(* HomeSecretToml: an instance is its fields path, _cache_v and _cache_t   *)
(* and the slot the cached_property data fills (None while it is empty).   *)
(* files maps a location to the mapping its TOML text parses to, or to     *)
(* None when no file is there.  A method gives its outcome, the instance   *)
(* after the call, and the events of the call in order.                    *)
(***************************************************************************)
None == [tag |-> "None"]

FileNotFoundPrefix ==
    <<"S", "e", "c", "r", "e", "t", " ", "f", "i", "l", "e", " ",
      "n", "o", "t", " ", "f", "o", "u", "n", "d", " ", "a", "t", " ">>

FileNotFound(loc) == Raise("FileNotFoundError", FileNotFoundPrefix \o loc)

HomeSecretToml(loc) ==
    [path |-> loc, data |-> None, _cache_v |-> <<>>, _cache_t |-> <<>>]

Outcome(res, self, events) == [res |-> res, self |-> self, events |-> events]

\* A variant that fills the slot with an empty mapping when the file is
\* missing, so that the failed load is remembered.
DataBodyRemembersMissing(self, files) ==
    IF files[self.path] = None
    THEN Outcome(FileNotFound(self.path), [self EXCEPT !.data = DictV(<<>>)],
                 <<"exists">>)
    ELSE Outcome(Return(files[self.path]),
                 [self EXCEPT !.data = files[self.path]],
                 <<"exists", "read_text", "loads">>)

\* A variant reading and parsing before it checks that the file exists.
DataBodyReadsFirst(self, files) ==
    IF files[self.path] = None
    THEN Outcome(FileNotFound(self.path), self, <<"read_text", "exists">>)
    ELSE Outcome(Return(files[self.path]),
                 [self EXCEPT !.data = files[self.path]],
                 <<"read_text", "loads", "exists">>)

\* The body of data: the existence check, then read_text and tomllib.loads.
DataBody(self, files) ==
    IF files[self.path] = None
    THEN Outcome(FileNotFound(self.path), self, <<"exists">>)
    ELSE Outcome(Return(files[self.path]),
                 [self EXCEPT !.data = files[self.path]],
                 <<"exists", "read_text", "loads">>)

\* A variant of data as a plain property: the body runs at every access.
DataNotMemoized(self, files) == DataBody(self, files)

\* self.data: cached_property returns the filled slot without running the body.
HomeSecretToml_data(self, files) ==
    IF self.data # None THEN Outcome(Return(self.data), self, <<>>)
    ELSE DataBody(self, files)

\* A variant of v that remembers a failed lookup: the path is stored with
\* None, and later calls return that.
VCachesFailure(self, files, p) ==
    IF p \in DOMAIN self._cache_v
    THEN Outcome(Return(self._cache_v[p]), self, <<>>)
    ELSE LET d == HomeSecretToml_data(self, files)
             r == _deep_get(d.res.value, p)
         IN  IF d.res.kind = "raise" THEN d
             ELSE IF r.kind = "raise"
             THEN Outcome(r, [d.self EXCEPT !._cache_v = (p :> None) @@ @],
                          d.events \o <<"_deep_get">>)
             ELSE Outcome(Return(r.value),
                          [d.self EXCEPT !._cache_v = (p :> r.value) @@ @],
                          d.events \o <<"_deep_get">>)

\* A variant of v that resolves at every call and stores the result again.
VAlwaysResolves(self, files, p) ==
    LET d == HomeSecretToml_data(self, files)
        r == _deep_get(d.res.value, p)
    IN  IF d.res.kind = "raise" THEN d
        ELSE IF r.kind = "raise"
        THEN Outcome(r, d.self, d.events \o <<"_deep_get">>)
        ELSE Outcome(r, [d.self EXCEPT !._cache_v = (p :> r.value) @@ @],
                     d.events \o <<"_deep_get">>)

\* A variant of v whose store keeps only the newest entry.
VKeepsNewestOnly(self, files, p) ==
    IF p \in DOMAIN self._cache_v
    THEN Outcome(Return(self._cache_v[p]), self, <<>>)
    ELSE LET d == HomeSecretToml_data(self, files)
             r == _deep_get(d.res.value, p)
         IN  IF d.res.kind = "raise" THEN d
             ELSE IF r.kind = "raise"
             THEN Outcome(r, d.self, d.events \o <<"_deep_get">>)
             ELSE Outcome(r, [d.self EXCEPT !._cache_v = (p :> r.value)],
                          d.events \o <<"_deep_get">>)

\* HomeSecretToml.v(path)
HomeSecretToml_v(self, files, p) ==
    IF p \in DOMAIN self._cache_v
    THEN Outcome(Return(self._cache_v[p]), self, <<>>)
    ELSE LET d == HomeSecretToml_data(self, files)
             r == _deep_get(d.res.value, p)
         IN  IF d.res.kind = "raise" THEN d
             ELSE IF r.kind = "raise"
             THEN Outcome(r, d.self, d.events \o <<"_deep_get">>)
             ELSE Outcome(Return(r.value),
                          [d.self EXCEPT !._cache_v = (p :> r.value) @@ @],
                          d.events \o <<"_deep_get">>)

\* HomeSecretToml.t(path)
HomeSecretToml_t(self, files, p) ==
    IF p \in DOMAIN self._cache_t
    THEN Outcome(Return(self._cache_t[p]), self, <<>>)
    ELSE LET d == HomeSecretToml_data(self, files)
         IN  IF d.res.kind = "raise" THEN d
             ELSE LET tk == TokenInit(d.res.value, p)
                  IN  IF tk.kind = "raise" THEN Outcome(tk, d.self, d.events)
                      ELSE Outcome(Return(tk.value),
                                   [d.self EXCEPT !._cache_t = (p :> tk.value) @@ @],
                                   d.events)

(***************************************************************************)
(* mask_value, get_secret and list_secrets are imported by the tests from  *)
(* the module but are not in the source at hand; they follow the           *)
(* specification (sections 4.6 and 4.7).                                   *)
(***************************************************************************)
MaskShort == <<"*", "*", "*">>

\* A variant that takes a string of exactly 8 characters for a long one.
MaskLongFromEight(value) ==
    IF value.tag # "str" THEN <<"*">>
    ELSE IF Len(value.s) < 8 THEN MaskShort
    ELSE SubSeq(value.s, 1, 2) \o MaskShort
            \o SubSeq(value.s, Len(value.s) - 1, Len(value.s))

mask_value(value) ==
    IF value.tag # "str" THEN <<"*">>
    ELSE IF Len(value.s) <= 8 THEN MaskShort
    ELSE SubSeq(value.s, 1, 2) \o MaskShort
            \o SubSeq(value.s, Len(value.s) - 1, Len(value.s))

get_secret(key, loc, files) ==
    LET d == HomeSecretToml_data(HomeSecretToml(loc), files)
    IN  IF d.res.kind = "raise" THEN Outcome(d.res, None, d.events)
        ELSE Outcome(_deep_get(d.res.value, key), None, d.events \o <<"_deep_get">>)

(***************************************************************************)
(* _normalize_for_match, _parse_query_facets and _matches_all_facets are   *)
(* imported by the tests from the module but are not in the source at      *)
(* hand; they follow the specification (section 4.5).                      *)
(***************************************************************************)
UpperCase ==
    <<"A", "B", "C", "D", "E", "F", "G", "H", "I", "J", "K", "L", "M",
      "N", "O", "P", "Q", "R", "S", "T", "U", "V", "W", "X", "Y", "Z">>
LowerCase ==
    <<"a", "b", "c", "d", "e", "f", "g", "h", "i", "j", "k", "l", "m",
      "n", "o", "p", "q", "r", "s", "t", "u", "v", "w", "x", "y", "z">>

\* str.lower() on one character
LowerChar(c) ==
    IF \E i \in 1..Len(UpperCase) : UpperCase[i] = c
    THEN LowerCase[CHOOSE i \in 1..Len(UpperCase) : UpperCase[i] = c]
    ELSE c

\* s.lower()
Lower(s) == [i \in 1..Len(s) |-> LowerChar(s[i])]

\* s.replace(old, new) for one-character old and new
Replace(s, old, new) == [i \in 1..Len(s) |-> IF s[i] = old THEN new ELSE s[i]]

\* A variant that lowercases but keeps the dashes.
NormalizeKeepsDash(s) == Lower(s)

\* normalize(s): lowercase, then every dash becomes an underscore.
_normalize_for_match(s) == Replace(Lower(s), "-", "_")

\* The characters that end a term of a query: whitespace and the comma.
Separators == {" ", "\t", "\n", ","}

RECURSIVE TermsFrom(_, _, _)
\* Scans query from position i on; cur is the term read since the last
\* separator.  A run of separators ends one term and starts none.
TermsFrom(query, i, cur) ==
    IF i > Len(query) THEN (IF cur = <<>> THEN <<>> ELSE <<cur>>)
    ELSE IF query[i] \in Separators
         THEN (IF cur = <<>> THEN <<>> ELSE <<cur>>) \o TermsFrom(query, i + 1, <<>>)
         ELSE TermsFrom(query, i + 1, Append(cur, query[i]))

\* A variant that splits at every separator and keeps the empty terms.
ParseKeepsEmptyTerms(query) ==
    LET SplitAll[i \in 1..(Len(query) + 1)] ==
            IF i > Len(query) THEN << <<>> >>
            ELSE IF query[i] \in Separators THEN << <<>> >> \o SplitAll[i + 1]
            ELSE <<(<<query[i]>> \o SplitAll[i + 1][1])>> \o Tail(SplitAll[i + 1])
        terms == SplitAll[1]
    IN  [i \in 1..Len(terms) |-> _normalize_for_match(terms[i])]

\* parseFacets(query): the terms of the query, each normalized.
_parse_query_facets(query) ==
    LET terms == TermsFrom(query, 1, <<>>)
    IN  [i \in 1..Len(terms) |-> _normalize_for_match(terms[i])]

\* facet in text
Contains(text, facet) ==
    \E k \in 0..(Len(text) - Len(facet)) : SubSeq(text, k + 1, k + Len(facet)) = facet

RECURSIVE AllFrom(_, _, _)
\* all(facet in normalized for facet in facets), from the i-th facet on
AllFrom(normalized, facets, i) ==
    IF i > Len(facets) THEN TRUE
    ELSE IF Contains(normalized, facets[i]) THEN AllFrom(normalized, facets, i + 1)
    ELSE FALSE

\* A variant asking for one matching facet instead of all.
MatchesAnyFacet(key, facets) ==
    \/ facets = <<>>
    \/ \E i \in 1..Len(facets) : Contains(_normalize_for_match(key), facets[i])

\* matchesAll(path, facets): the path is normalized, the facets are not.
_matches_all_facets(key, facets) == AllFrom(_normalize_for_match(key), facets, 1)

(***************************************************************************)
(* list_secrets(path, query): not in the source at hand either; it follows *)
(* the specification (section 4.7).  query is None or a str.               *)
(***************************************************************************)
\* The entries of a listing: the paths with the masked values.
Masked(entries) ==
    ListV([i \in 1..Len(entries) |->
              <<entries[i][1], StrV(mask_value(entries[i][2]))>>])

\* A variant that keeps an entry as soon as one facet matches.
ListSecretsAnyFacet(loc, files, query) ==
    LET d == HomeSecretToml_data(HomeSecretToml(loc), files)
        entries == walk(d.res.value, <<>>)
        facets == IF query = None THEN <<>> ELSE _parse_query_facets(query.s)
        Keep(e) == MatchesAnyFacet(e[1], facets)
    IN  IF d.res.kind = "raise" THEN Outcome(d.res, None, d.events)
        ELSE Outcome(Return(Masked(SelectSeq(entries, Keep))),
                     None, d.events \o <<"walk">>)

list_secrets(loc, files, query) ==
    LET d == HomeSecretToml_data(HomeSecretToml(loc), files)
        entries == walk(d.res.value, <<>>)
        facets == IF query = None THEN <<>> ELSE _parse_query_facets(query.s)
        Keep(e) == _matches_all_facets(e[1], facets)
    IN  IF d.res.kind = "raise" THEN Outcome(d.res, None, d.events)
        ELSE Outcome(Return(Masked(SelectSeq(entries, Keep))),
                     None, d.events \o <<"walk">>)

(***************************************************************************)
(* gen_enum_code(hs_instance, output_path): the generated file is the      *)
(* fixed text up to the class line, one attribute line for each path of    *)
(* walk(hs_instance.data), and the fixed text of the validation function.  *)
(* The two fixed texts are shortened to their first line.                  *)
(***************************************************************************)
TAB == <<" ", " ", " ", " ">>
ClassLine == <<"c", "l", "a", "s", "s", " ", "S", "e", "c", "r", "e", "t", ":">>
ValidateLine == <<"d", "e", "f", " ", "_", "v", "a", "l", "i", "d", "a", "t", "e",
                  "_", "s", "e", "c", "r", "e", "t", "(", ")", ":">>

RECURSIVE ReplaceDots(_)
\* path.replace(".", "__")
ReplaceDots(p) ==
    IF p = <<>> THEN <<>>
    ELSE (IF p[1] = DOT THEN <<"_", "_">> ELSE <<p[1]>>) \o ReplaceDots(Tail(p))

\* f'{TAB}{attr_name} = hs.t("{path}")'
AttrLine(p) ==
    TAB \o ReplaceDots(p) \o <<" ", "=", " ", "h", "s", ".", "t", "(", "\"">>
        \o p \o <<"\"", ")">>

\* The text of a file: its lines.
TextV(lines) == [tag |-> "text", lines |-> lines]

\* files maps the output location to the text of the file there, or to None.
GenOutcome(res, self, files, events) ==
    [res |-> res, self |-> self, files |-> files, events |-> events]

gen_enum_code(hs_instance, output_path, files) ==
    LET d == HomeSecretToml_data(hs_instance, files)
        entries == walk(d.res.value, <<>>)
        lines == <<ClassLine>>
                   \o [i \in 1..Len(entries) |-> AttrLine(entries[i][1])]
                   \o <<ValidateLine>>
    IN  IF d.res.kind = "raise" THEN GenOutcome(d.res, d.self, files, d.events)
        ELSE GenOutcome(Return(None), d.self,
                        [files EXCEPT ![output_path] = TextV(lines)],
                        d.events \o <<"walk", "write_text">>)

(***************************************************************************)
(* generate_enum(path, output, overwrite) is imported by the tests from    *)
(* the module but is not in the source at hand; it follows the             *)
(* specification (section 6) and its tests: it refuses an existing output  *)
(* unless overwrite is set, and else runs gen_enum_code on a new store.    *)
(***************************************************************************)
FileExists(output) ==
    Raise("FileExistsError",
          output \o <<" ", "a", "l", "r", "e", "a", "d", "y", " ",
                      "e", "x", "i", "s", "t", "s">>)

\* A variant without the check of the output file.
GenerateEnumAlwaysWrites(loc, output, overwrite, files) ==
    LET g == gen_enum_code(HomeSecretToml(loc), output, files)
    IN  IF g.res.kind = "raise" THEN GenOutcome(g.res, None, files, g.events)
        ELSE GenOutcome(Return(StrV(output)), None, g.files, g.events)

generate_enum(loc, output, overwrite, files) ==
    IF files[output] # None /\ ~overwrite
    THEN GenOutcome(FileExists(output), None, files, <<"exists">>)
    ELSE LET g == gen_enum_code(HomeSecretToml(loc), output, files)
         IN  IF g.res.kind = "raise"
             THEN GenOutcome(g.res, None, files, <<"exists">> \o g.events)
             ELSE GenOutcome(Return(StrV(output)), None, g.files,
                             <<"exists">> \o g.events)

(***************************************************************************)
(* The stores, their files and the paths asked of them.                    *)
(***************************************************************************)
Stores == {"hs1", "hs2"}
Loc(s) == IF s = "hs1" THEN <<"/", "1">> ELSE <<"/", "2">>
Locs == {Loc(s) : s \in Stores}

PathAB == <<"a", ".", "b">>
PathA == <<"a">>
PathAD == <<"a", ".", "d">>
StorePaths == {PathAB, PathA, PathAD}

FileContents ==
    { DictV(<< <<KeyA, DictV(<< <<KeyB, StrV(<<"x">>)>>,
                                <<DESCRIPTION, StrV(<<"x">>)>> >>)>> >>),
      DictV(<< <<KeyA, DictV(<< <<KeyB, IntV(1)>> >>)>>,
               <<KeyB, StrV(UNKNOWN)>> >>) }

(***************************************************************************)
(* State.                                                                  *)
(***************************************************************************)
VARIABLES
    dct,    \* the mapping handed to the pure functions
    path,   \* the path handed to _deep_get and to Token
    token,  \* the Token built from dct and path, or None
    stores, \* the HomeSecretToml instances
    fs,     \* the file at each location: the mapping it parses to, or None
    ret     \* the last call and its outcome

vars == <<dct, path, token, stores, fs, ret>>

NoCall == [op |-> "none", res |-> None]

NoStores ==
    /\ stores = [s \in Stores |-> HomeSecretToml(Loc(s))]
    /\ fs = [l \in Locs |-> None]

(***************************************************************************)
(* SpecResolve: _deep_get on every mapping and path of the bounds.         *)
(***************************************************************************)
InitResolve ==
    /\ dct \in Mappings
    /\ path \in Paths
    /\ token = None
    /\ NoStores
    /\ ret = NoCall

DeepGetCall ==
    /\ ret' = [op |-> "_deep_get", res |-> _deep_get(dct, path)]
    /\ UNCHANGED <<dct, path, token, stores, fs>>

NextResolve == DeepGetCall

SpecResolve == InitResolve /\ [][NextResolve]_vars

(***************************************************************************)
(* SpecWalk: walk on every mapping of the bounds.                          *)
(***************************************************************************)
InitWalk ==
    /\ dct \in Mappings
    /\ path = <<>>
    /\ token = None
    /\ NoStores
    /\ ret = NoCall

WalkCall ==
    /\ ret' = [op |-> "walk", res |-> walk(dct, <<>>)]
    /\ UNCHANGED <<dct, path, token, stores, fs>>

NextWalk == WalkCall

SpecWalk == InitWalk /\ [][NextWalk]_vars

(***************************************************************************)
(* SpecRoundTrip: walk on every mapping of the bounds, and then _deep_get  *)
(* on the mapping with the path of an entry that walk yielded (what the    *)
(* generated hs.t("<path>").v does).                                       *)
(***************************************************************************)
ResolveEntry ==
    /\ ret.op = "walk"
    /\ \E i \in 1..Len(ret.res) :
          ret' = [op |-> "walk._deep_get", entry |-> ret.res[i],
                  res |-> _deep_get(dct, ret.res[i][1])]
    /\ UNCHANGED <<dct, path, token, stores, fs>>

NextRoundTrip == WalkCall \/ ResolveEntry

SpecRoundTrip == InitWalk /\ [][NextRoundTrip]_vars

(***************************************************************************)
(* SpecToken: a Token built from every mapping and path of the bounds,     *)
(* and read.                                                               *)
(***************************************************************************)
InitToken == InitResolve

TokenNew ==
    /\ token = None
    /\ LET r == TokenInit(dct, path)
       IN  /\ ret' = [op |-> "Token", res |-> r]
           /\ token' = IF r.kind = "return" THEN r.value ELSE None
    /\ UNCHANGED <<dct, path, stores, fs>>

TokenRead ==
    /\ token # None
    /\ ret' = [op |-> "Token.v", res |-> TokenV(token)]
    /\ UNCHANGED <<dct, path, token, stores, fs>>

NextToken == TokenNew \/ TokenRead

SpecToken == InitToken /\ [][NextToken]_vars

(***************************************************************************)
(* SpecFacet: the facet matcher on every query, key and facet list of the  *)
(* bounds.                                                                 *)
(***************************************************************************)
RECURSIVE StringsOver(_, _)
\* The strings of exactly n characters of chars.
StringsOver(chars, n) ==
    IF n = 0 THEN {<<>>}
    ELSE {Append(s, c) : s \in StringsOver(chars, n - 1), c \in chars}

RECURSIVE ListsOf(_, _)
\* The lists of exactly n elements of xs.
ListsOf(xs, n) ==
    IF n = 0 THEN {<<>>}
    ELSE {Append(l, x) : l \in ListsOf(xs, n - 1), x \in xs}

QueryChars == {"A", "a", "B", "-", "_", " ", ","}
Queries == UNION {StringsOver(QueryChars, n) : n \in 0..MaxStr}
          \cup { <<"a", "\t", "\n", "b">>, <<"A", ",", " ", ",", "-", " ", "b">> }

KeyChars == {"A", "b", "-", "_", "."}
MatchKeys == UNION {StringsOver(KeyChars, n) : n \in 0..MaxStr}

FacetTerms == { <<>>, <<"a">>, <<"A">>, <<"b">>, <<"_">>, <<"-">>, <<"a", "_", "b">> }
FacetLists == UNION {ListsOf(FacetTerms, n) : n \in 0..MaxFacets}

InitFacet ==
    /\ dct = DictV(<<>>)
    /\ path = <<>>
    /\ token = None
    /\ NoStores
    /\ ret = NoCall

\* Each behaviour of SpecFacet is one call on one input.
Normalize ==
    \E s \in Queries :
        /\ ret.op = "none"
        /\ ret' = [op |-> "_normalize_for_match", s |-> s,
                   res |-> _normalize_for_match(s)]
        /\ UNCHANGED <<dct, path, token, stores, fs>>

ParseFacets ==
    \E q \in Queries :
        /\ ret.op = "none"
        /\ ret' = [op |-> "_parse_query_facets", query |-> q,
                   res |-> _parse_query_facets(q)]
        /\ UNCHANGED <<dct, path, token, stores, fs>>

MatchesAll ==
    \E k \in MatchKeys, fl \in FacetLists :
        /\ ret.op = "none"
        /\ ret' = [op |-> "_matches_all_facets", key |-> k, facets |-> fl,
                   res |-> _matches_all_facets(k, fl)]
        /\ UNCHANGED <<dct, path, token, stores, fs>>

NextFacet == Normalize \/ ParseFacets \/ MatchesAll

SpecFacet == InitFacet /\ [][NextFacet]_vars

(***************************************************************************)
(* SpecMask: mask_value on every string of the bounds and on values that   *)
(* are not strings.                                                        *)
(***************************************************************************)
SecretChars == {"a", "b"}
SecretStrings == UNION {StringsOver(SecretChars, n) : n \in 0..MaxSecretLen}

NonStrings ==
    { IntV(123), IntV(0), FloatV(<<"3", ".", "1", "4">>), BoolV(TRUE), BoolV(FALSE),
      None, ListV(<<>>), ListV(<<StrV(<<"a">>), StrV(<<"b">>)>>),
      DictV(<<>>), DictV(<< <<KeyA, StrV(<<"x">>)>> >>) }

MaskInputs == {StrV(s) : s \in SecretStrings} \cup NonStrings

\* Each behaviour of SpecMask is one call on one input.
Mask ==
    \E v \in MaskInputs :
        /\ ret.op = "none"
        /\ ret' = [op |-> "mask_value", value |-> v, res |-> mask_value(v)]
        /\ UNCHANGED <<dct, path, token, stores, fs>>

NextMask == Mask

SpecMask == InitFacet /\ [][NextMask]_vars

(***************************************************************************)
(* SpecList: list_secrets on a file, with every query of the bounds and    *)
(* without a query.                                                        *)
(***************************************************************************)
ListFiles ==
    FileContents \cup
    { DictV(<< <<<<"A", "-", "b">>,
                 DictV(<< <<<<"k">>, StrV(<<"x">>)>>,
                          <<DESCRIPTION, StrV(<<"x">>)>>,
                          <<<<"p">>, StrV(UNKNOWN)>> >>)>>,
               <<KeyA,
                 DictV(<< <<<<"B">>, IntV(1)>>,
                          <<<<"a", "b">>,
                            StrV(<<"a", "b", "a", "b", "a", "b", "a", "b", "b", "a">>)>> >>)>>,
               <<KeyB, StrV(<<"x">>)>> >>) }

InitList ==
    /\ dct = DictV(<<>>)
    /\ path = <<>>
    /\ token = None
    /\ stores = [s \in Stores |-> HomeSecretToml(Loc(s))]
    /\ fs \in [Locs -> {None} \cup ListFiles]
    /\ fs[Loc("hs2")] = None
    /\ ret = NoCall

\* list_secrets(path=Loc("hs1"), query=q); each behaviour is one call.
ListQuery ==
    \E q \in {None} \cup {StrV(x) : x \in Queries} :
        /\ ret.op = "none"
        /\ ret' = [op |-> "list_secrets", loc |-> Loc("hs1"), query |-> q,
                   res |-> list_secrets(Loc("hs1"), fs, q).res,
                   events |-> list_secrets(Loc("hs1"), fs, q).events]
        /\ UNCHANGED <<dct, path, token, stores, fs>>

NextList == ListQuery

SpecList == InitList /\ [][NextList]_vars

(***************************************************************************)
(* Spec: one store, hs1, used in any order through data, v, t and the      *)
(* tokens t returned, beside get_secret and list_secrets on its location,  *)
(* while its file is written, rewritten and removed.                       *)
(***************************************************************************)
\* The record of a call without a key path and of its outcome.
Call(op, s, l, o) ==
    [op |-> op, self |-> s, loc |-> l, res |-> o.res, events |-> o.events]

\* The record of a call on the key path p and of its outcome.
CallOn(op, s, l, p, o) ==
    [op |-> op, self |-> s, loc |-> l, path |-> p, res |-> o.res, events |-> o.events]

InitOn(S) ==
    /\ dct = DictV(<<>>)
    /\ path = <<>>
    /\ token = None
    /\ stores = [s \in Stores |-> HomeSecretToml(Loc(s))]
    /\ fs \in [Locs -> {None} \cup FileContents]
    /\ \A s \in Stores \ S : fs[Loc(s)] = None
    /\ ret = NoCall

\* A variant whose caches are one pair of dicts shared by every instance
\* (a class-level default instead of field(default_factory=dict)).
SetInstanceSharedCaches(ss, s, self) ==
    [u \in DOMAIN ss |->
        IF u = s THEN self
        ELSE [ss[u] EXCEPT !._cache_v = self._cache_v, !._cache_t = self._cache_t]]

\* The instances after a method has run on s: the slot of data and the two
\* dicts belong to the instance, so only the fields of s are assigned.
SetInstance(ss, s, self) == [ss EXCEPT ![s] = self]

\* _ = hs.data
Data(s) ==
    LET o == HomeSecretToml_data(stores[s], fs)
    IN  /\ stores' = SetInstance(stores, s, o.self)
        /\ ret' = Call("data", s, Loc(s), o)
        /\ UNCHANGED <<dct, path, token, fs>>

\* hs.v(p)
V(s, p) ==
    LET o == HomeSecretToml_v(stores[s], fs, p)
    IN  /\ stores' = SetInstance(stores, s, o.self)
        /\ ret' = CallOn("v", s, Loc(s), p, o)
        /\ UNCHANGED <<dct, path, token, fs>>

\* hs.t(p)
T(s, p) ==
    LET o == HomeSecretToml_t(stores[s], fs, p)
    IN  /\ stores' = SetInstance(stores, s, o.self)
        /\ ret' = CallOn("t", s, Loc(s), p, o)
        /\ UNCHANGED <<dct, path, token, fs>>

\* tk.v, for a token tk that hs.t(p) returned
StoreTokenRead(s, p) ==
    /\ p \in DOMAIN stores[s]._cache_t
    /\ ret' = CallOn("Token.v", s, Loc(s), p,
                   Outcome(TokenV(stores[s]._cache_t[p]), None, <<"_deep_get">>))
    /\ UNCHANGED <<dct, path, token, stores, fs>>

\* get_secret(key=p, path=Loc(s))
GetSecret(s, p) ==
    /\ ret' = CallOn("get_secret", "-", Loc(s), p, get_secret(p, Loc(s), fs))
    /\ UNCHANGED <<dct, path, token, stores, fs>>

\* list_secrets(path=Loc(s))
ListSecrets(s) ==
    /\ ret' = Call("list_secrets", "-", Loc(s), list_secrets(Loc(s), fs, None))
    /\ UNCHANGED <<dct, path, token, stores, fs>>

\* The file of s is created or rewritten.
FileWrite(s, c) ==
    /\ fs[Loc(s)] # c
    /\ fs' = [fs EXCEPT ![Loc(s)] = c]
    /\ ret' = Call("write", "-", Loc(s), Outcome(None, None, <<>>))
    /\ UNCHANGED <<dct, path, token, stores>>

\* The file of s is removed.
FileDelete(s) ==
    /\ fs[Loc(s)] # None
    /\ fs' = [fs EXCEPT ![Loc(s)] = None]
    /\ ret' = Call("unlink", "-", Loc(s), Outcome(None, None, <<>>))
    /\ UNCHANGED <<dct, path, token, stores>>

NextOn(S) ==
    \E s \in S :
        \/ Data(s)
        \/ \E p \in StorePaths : V(s, p)
        \/ \E p \in StorePaths : T(s, p)
        \/ \E p \in StorePaths : StoreTokenRead(s, p)
        \/ \E p \in StorePaths : GetSecret(s, p)
        \/ ListSecrets(s)
        \/ \E c \in FileContents : FileWrite(s, c)
        \/ FileDelete(s)

Init == InitOn({"hs1"})
Next == NextOn({"hs1"})
Spec == Init /\ [][Next]_vars

(***************************************************************************)
(* SpecTwo: two stores, each on its own file, used in any order through    *)
(* data, v and t while their files are removed.                            *)
(***************************************************************************)
TwoStorePaths == {PathAB, PathAD}

InitTwo == InitOn(Stores)

NextTwo ==
    \E s \in Stores :
        \/ Data(s)
        \/ \E p \in TwoStorePaths : V(s, p)
        \/ \E p \in TwoStorePaths : T(s, p)
        \/ FileDelete(s)

SpecTwo == InitTwo /\ [][NextTwo]_vars

(***************************************************************************)
(* SpecEnum: the enum file of the store hs1 is generated through           *)
(* gen_enum_code and through generate_enum, with and without overwrite,    *)
(* beside uses of hs1.data, while the secret file and the output file are  *)
(* written and removed.                                                    *)
(***************************************************************************)
\* p_here_enum
p_here_enum ==
    <<"h", "o", "m", "e", "_", "s", "e", "c", "r", "e", "t", "_",
      "e", "n", "u", "m", ".", "p", "y">>

\* output_file.write_text("existing content")
ExistingContent ==
    TextV(<< <<"e", "x", "i", "s", "t", "i", "n", "g", " ",
               "c", "o", "n", "t", "e", "n", "t">> >>)

InitEnum ==
    /\ dct = DictV(<<>>)
    /\ path = <<>>
    /\ token = None
    /\ stores = [s \in Stores |-> HomeSecretToml(Loc(s))]
    /\ fs \in [Locs \cup {p_here_enum} -> {None, ExistingContent} \cup FileContents]
    /\ fs[Loc("hs1")] \in {None} \cup FileContents
    /\ fs[Loc("hs2")] = None
    /\ fs[p_here_enum] \in {None, ExistingContent}
    /\ ret = NoCall

\* gen_enum_code(hs_instance=hs1, output_path=p_here_enum)
GenEnumCode ==
    LET g == gen_enum_code(stores["hs1"], p_here_enum, fs)
    IN  /\ stores' = SetInstance(stores, "hs1", g.self)
        /\ fs' = g.files
        /\ ret' = [op |-> "gen_enum_code", self |-> "hs1", output |-> p_here_enum,
                   res |-> g.res, events |-> g.events]
        /\ UNCHANGED <<dct, path, token>>

\* generate_enum(path=Loc("hs1"), output=p_here_enum, overwrite=ow)
GenerateEnum(ow) ==
    LET g == generate_enum(Loc("hs1"), p_here_enum, ow, fs)
    IN  /\ fs' = g.files
        /\ ret' = [op |-> "generate_enum", loc |-> Loc("hs1"), output |-> p_here_enum,
                   overwrite |-> ow, res |-> g.res, events |-> g.events]
        /\ UNCHANGED <<dct, path, token, stores>>

\* The output file is written by hand.
OutputWrite ==
    /\ fs[p_here_enum] # ExistingContent
    /\ fs' = [fs EXCEPT ![p_here_enum] = ExistingContent]
    /\ ret' = [op |-> "write", loc |-> p_here_enum]
    /\ UNCHANGED <<dct, path, token, stores>>

\* The output file is removed.
OutputDelete ==
    /\ fs[p_here_enum] # None
    /\ fs' = [fs EXCEPT ![p_here_enum] = None]
    /\ ret' = [op |-> "unlink", loc |-> p_here_enum]
    /\ UNCHANGED <<dct, path, token, stores>>

NextEnum ==
    \/ GenEnumCode
    \/ Data("hs1")
    \/ \E ow \in BOOLEAN : GenerateEnum(ow)
    \/ OutputWrite
    \/ OutputDelete
    \/ \E c \in FileContents : FileWrite("hs1", c)
    \/ FileDelete("hs1")

SpecEnum == InitEnum /\ [][NextEnum]_vars

(***************************************************************************)
(* What the claims speak of: the segments of a path, and the value a       *)
(* sequence of keys leads to.                                              *)
(***************************************************************************)
Front(s) == SubSeq(s, 1, Len(s) - 1)
Last(s) == s[Len(s)]

RECURSIVE At(_, _)
\* The value reached from M by the keys ks in turn (when each is present).
At(M, ks) == IF ks = <<>> THEN M ELSE GetItem(At(M, Front(ks)), Last(ks))

RECURSIVE Present(_, _, _)
\* The first k of the keys ks are each a key of the mapping before it.
Present(M, ks, k) ==
    \/ k = 0
    \/ /\ Present(M, ks, k - 1)
       /\ IsDict(At(M, SubSeq(ks, 1, k - 1)))
       /\ HasKey(At(M, SubSeq(ks, 1, k - 1)), ks[k])

Segments(P) == Split(P, DOT)

NotFound(P) == Raise("KeyError", KeyErrorPrefix \o <<"'">> \o P \o <<"'">> \o KeyErrorSuffix)

(***************************************************************************)
(* C1: for every mapping and every path whose segments are each present at *)
(* their level, _deep_get returns exactly the value stored there (scalar,  *)
(* list or sub-tree), leaves the mapping as it was, and a repeated call    *)
(* returns the same result.                                                *)
(***************************************************************************)
C1_ResolveReturnsStoredValue ==
    /\ [](ret.op = "_deep_get" /\ Present(dct, Segments(path), Len(Segments(path)))
            => ret.res = Return(At(dct, Segments(path))))
    /\ [][/\ dct' = dct
          /\ (ret.op = "_deep_get" /\ ret'.op = "_deep_get") => ret' = ret]_vars

\* A three-segment path resolved to a value, and a two-segment one to a sub-tree.
C1_Witness ==
    /\ ret.op = "_deep_get"
    /\ Len(Segments(path)) = 2
    /\ Present(dct, Segments(path), 2)
    /\ ret.res.kind = "return"
    /\ IsDict(ret.res.value)
    /\ ret.res.value.items # <<>>

(***************************************************************************)
(* C2: if k is the first segment at which the current value is no mapping  *)
(* or lacks the segment, _deep_get raises KeyError and the path in its     *)
(* message is the dot-join of segments 1..k: the consumed prefix and the   *)
(* missing segment, not the missing segment alone and not the whole path.  *)
(***************************************************************************)
C2_NotFoundNamesPrefix ==
    ret.op = "_deep_get" =>
        \A k \in 1..Len(Segments(path)) :
            (Present(dct, Segments(path), k - 1) /\ ~Present(dct, Segments(path), k))
                => ret.res = NotFound(Join(SubSeq(Segments(path), 1, k), DOT))

\* The second of three segments is missing under a scalar.
C2_Witness ==
    /\ ret.op = "_deep_get"
    /\ Len(Segments(path)) = 3
    /\ Present(dct, Segments(path), 1)
    /\ ~IsDict(At(dct, SubSeq(Segments(path), 1, 1)))
    /\ ret.res.kind = "raise"

(***************************************************************************)
(* C3: t never fails, whatever the path and whatever the state of the      *)
(* store, a store whose file does not exist included.                      *)
(***************************************************************************)
C3_GetReferenceNeverFails == ret.op = "t" => ret.res.kind = "return"

(***************************************************************************)
(* C4: walk skips a key equal to "description" at every level, neither     *)
(* yielding it nor descending into it, even when its value is a mapping:   *)
(* no yielded path passes through a "description" key.                     *)
(***************************************************************************)
C4_DescriptionNeverTraversed ==
    ret.op = "walk" =>
        \A i \in 1..Len(ret.res) :
            \A j \in 1..Len(Segments(ret.res[i][1])) :
                Segments(ret.res[i][1])[j] # DESCRIPTION

(***************************************************************************)
(* C5: walk never yields a value equal to the placeholder "...", and a     *)
(* skipped placeholder does not end the traversal: every value that is no  *)
(* mapping and no placeholder, under a key other than "description", is    *)
(* yielded exactly once.                                                   *)
(***************************************************************************)
RECURSIVE KeySeqs(_)
\* The key sequences leading from a value to the values inside it.
KeySeqs(value) ==
    IF ~IsDict(value) THEN {<<>>}
    ELSE {<<>>} \cup
         UNION { { <<value.items[i][1]>> \o r : r \in KeySeqs(value.items[i][2]) } :
                 i \in 1..Len(value.items) }

EligibleLeaves(M) ==
    { ks \in KeySeqs(M) \ {<<>>} :
        /\ ~IsDict(At(M, ks))
        /\ At(M, ks) # StrV(UNKNOWN)
        /\ Last(ks) # DESCRIPTION }

C5_PlaceholderSkippedSiblingsYielded ==
    ret.op = "walk" =>
        /\ \A i \in 1..Len(ret.res) : ret.res[i][2] # StrV(UNKNOWN)
        /\ \A ks \in EligibleLeaves(dct) :
            /\ Cardinality({i \in 1..Len(ret.res) : ret.res[i][2] = At(dct, ks)})
                 = Cardinality({js \in EligibleLeaves(dct) : At(dct, js) = At(dct, ks)})
            /\ (\A j \in 1..(Len(ks) - 1) : ks[j] # <<>>)
                 => \E i \in 1..Len(ret.res) : ret.res[i] = <<Join(ks, DOT), At(dct, ks)>>

\* A nested placeholder, then its sibling and a later key of the parent, both yielded.
C5_Witness ==
    /\ ret.op = "walk"
    /\ Len(dct.items) = 2
    /\ IsDict(dct.items[1][2])
    /\ Len(dct.items[1][2].items) = 2
    /\ dct.items[1][2].items[1][2] = StrV(UNKNOWN)
    /\ Len(ret.res) = 2

(***************************************************************************)
(* C6: once a store has loaded its mapping, no later data, v or t of that  *)
(* store reads the file again: the loaded mapping stays the one it holds,  *)
(* and a later data access returns it.                                     *)
(***************************************************************************)
Range(f) == {f[i] : i \in DOMAIN f}

C6_LoadedOnce ==
    [][\A s \in Stores :
         stores[s].data # None =>
            /\ stores'[s].data = stores[s].data
            /\ (ret'.op \in {"data", "v", "t"} /\ ret'.self = s)
                 => "read_text" \notin Range(ret'.events)
            /\ (ret'.op = "data" /\ ret'.self = s)
                 => ret'.res = Return(stores[s].data)]_vars

\* The file was rewritten after the load, and a later access gave the loaded mapping.
C6_Witness ==
    /\ ret.op = "data"
    /\ ret.events = <<>>
    /\ fs[ret.loc] # None
    /\ fs[ret.loc] # stores[ret.self].data
    /\ ret.res = Return(stores[ret.self].data)

(***************************************************************************)
(* C7: when no file is at the location, each of data, v, list_secrets and  *)
(* get_secret raises FileNotFoundError, and nothing is read or parsed      *)
(* before it is raised.                                                    *)
(***************************************************************************)
C7_MissingFileAlwaysFails ==
    [][\A s \in Stores :
         (fs[Loc(s)] = None /\ ret'.loc = Loc(s)
            /\ ret'.op \in {"data", "v", "list_secrets", "get_secret"})
         => (ret'.res = FileNotFound(Loc(s)) /\ ret'.events = <<"exists">>)]_vars

(***************************************************************************)
(* C7 as amended: when no file is at the location, data and v of a store   *)
(* that has not loaded its mapping, and every list_secrets and get_secret, *)
(* raise FileNotFoundError, and the existence check is all that ran before *)
(* it was raised.                                                          *)
(***************************************************************************)
C7_MissingFileFailsUnlessLoaded ==
    [][\A s \in Stores :
         (fs[Loc(s)] = None /\ ret'.loc = Loc(s)
            /\ \/ ret'.op \in {"data", "v"} /\ stores[s].data = None
               \/ ret'.op \in {"list_secrets", "get_secret"})
         => (ret'.res = FileNotFound(Loc(s)) /\ ret'.events = <<"exists">>)]_vars

\* v raised FileNotFoundError on a store with no file and nothing loaded.
C7_Witness ==
    /\ ret.op = "v"
    /\ fs[ret.loc] = None
    /\ stores[ret.self].data = None
    /\ ret.res = FileNotFound(ret.loc)

(***************************************************************************)
(* C8: a v(p) that returns gives what _deep_get gives for the store's      *)
(* mapping and p; the first such call stores the value under exactly p,    *)
(* and every later v(p) returns the stored value without calling _deep_get *)
(* (and without touching the file or the store).                           *)
(***************************************************************************)
C8_ValueCachedByPath ==
    /\ [](ret.op = "v" /\ ret.res.kind = "return" =>
            /\ stores[ret.self].data # None
            /\ ret.res = _deep_get(stores[ret.self].data, ret.path)
            /\ ret.path \in DOMAIN stores[ret.self]._cache_v
            /\ stores[ret.self]._cache_v[ret.path] = ret.res.value)
    /\ [][\A s \in Stores :
            (ret'.op = "v" /\ ret'.self = s) =>
               /\ ret'.path \in DOMAIN stores[s]._cache_v =>
                    /\ ret'.res = Return(stores[s]._cache_v[ret'.path])
                    /\ ret'.events = <<>>
                    /\ stores' = stores
               /\ (ret'.path \notin DOMAIN stores[s]._cache_v /\ ret'.res.kind = "return") =>
                    /\ "_deep_get" \in Range(ret'.events)
                    /\ DOMAIN stores'[s]._cache_v
                         = DOMAIN stores[s]._cache_v \cup {ret'.path}]_vars

\* A later v of a cached sub-tree, with the file gone meanwhile.
C8_Witness ==
    /\ ret.op = "v"
    /\ ret.events = <<>>
    /\ ret.res.kind = "return"
    /\ IsDict(ret.res.value)
    /\ fs[ret.loc] = None
    /\ Cardinality(DOMAIN stores[ret.self]._cache_v) = 2

(***************************************************************************)
(* C9: both caches only grow: in every step, each path in _cache_v or in   *)
(* _cache_t before the step is in it after the step, with the same entry.  *)
(***************************************************************************)
C9_CachesOnlyGrow ==
    [][\A s \in Stores :
         /\ \A p \in DOMAIN stores[s]._cache_v :
              /\ p \in DOMAIN stores'[s]._cache_v
              /\ stores'[s]._cache_v[p] = stores[s]._cache_v[p]
         /\ \A p \in DOMAIN stores[s]._cache_t :
              /\ p \in DOMAIN stores'[s]._cache_t
              /\ stores'[s]._cache_t[p] = stores[s]._cache_t[p]]_vars

\* Both caches hold several entries, the last of them just added by v.
C9_Witness ==
    /\ ret.op = "v"
    /\ "_deep_get" \in Range(ret.events)
    /\ Cardinality(DOMAIN stores[ret.self]._cache_v) = 2
    /\ Cardinality(DOMAIN stores[ret.self]._cache_t) = 3

(***************************************************************************)
(* C10: building a Token from a mapping and a path resolves nothing and    *)
(* never fails; every read resolves the wrapped mapping and path anew, so  *)
(* it returns what _deep_get returns for them or raises the very KeyError  *)
(* _deep_get raises; the token keeps nothing of a read and can be read     *)
(* again with the same outcome.                                            *)
(***************************************************************************)
C10_TokenLazyAndTransparent ==
    /\ [](/\ ret.op = "Token" => ret.res = Return(Token(dct, path))
          /\ token # None => token = Token(dct, path)
          /\ ret.op = "Token.v" => ret.res = _deep_get(dct, path))
    /\ [][ret.op = "Token.v" /\ ret'.op = "Token.v" => ret' = ret /\ token' = token]_vars

\* A token of an absent three-segment path was built, and its read raised.
C10_Witness ==
    /\ ret.op = "Token.v"
    /\ token = Token(dct, path)
    /\ Len(Segments(path)) = 3
    /\ ret.res.kind = "raise"
    /\ ret.res = NotFound(Join(SubSeq(Segments(path), 1, 2), DOT))

(***************************************************************************)
(* C11: two stores share no state: a data, v or t call on one store,       *)
(* whether it returns or raises, leaves the memoized data, the value cache *)
(* and the token cache of the other store as they were.                    *)
(***************************************************************************)
C11_StoresIsolated ==
    [][\A s \in Stores :
         (ret'.op \in {"data", "v", "t"} /\ ret'.self = s) =>
            \A u \in Stores \ {s} :
               /\ stores'[u].data = stores[u].data
               /\ stores'[u]._cache_v = stores[u]._cache_v
               /\ stores'[u]._cache_t = stores[u]._cache_t]_vars

\* hs1 has just cached a value while hs2 holds its own data and caches, which
\* differ from those of hs1.
C11_Witness ==
    /\ ret.op = "v"
    /\ ret.self = "hs1"
    /\ ret.res.kind = "return"
    /\ "_deep_get" \in Range(ret.events)
    /\ stores["hs2"].data # None
    /\ stores["hs2"].data # stores["hs1"].data
    /\ stores["hs2"]._cache_v # <<>>
    /\ stores["hs2"]._cache_v # stores["hs1"]._cache_v
    /\ DOMAIN stores["hs2"]._cache_t # DOMAIN stores["hs1"]._cache_t
    /\ DOMAIN stores["hs2"]._cache_t # {}

(***************************************************************************)
(* C12: _matches_all_facets(key, facets) is true exactly when every facet  *)
(* occurs, as given, at some offset of the normalized key: all of the      *)
(* facets and not one of them, true for the empty list, and the facets     *)
(* are not normalized (a facet with a capital or a dash never matches).    *)
(***************************************************************************)
\* f occurs in text at offset k, character by character.
OccursAt(text, f, k) ==
    /\ k + Len(f) <= Len(text)
    /\ \A j \in 1..Len(f) : text[k + j] = f[j]

C12_MatchesAllIsConjunction ==
    ret.op = "_matches_all_facets" =>
        LET n == Replace(Lower(ret.key), "-", "_")
        IN  /\ ret.res = (\A i \in 1..Len(ret.facets) :
                            \E k \in 0..Len(n) : OccursAt(n, ret.facets[i], k))
            /\ ret.facets = <<>> => ret.res = TRUE
            /\ (\E i \in 1..Len(ret.facets) :
                    \E j \in 1..Len(ret.facets[i]) :
                        ret.facets[i][j] \in {"A", "-"}) => ret.res = FALSE

\* Two facets of which the key holds one only: the answer is FALSE although
\* one facet matches, and the key matches through its normal form only.
C12_Witness ==
    /\ ret.op = "_matches_all_facets"
    /\ ret.key = <<"A", "-", "b">>
    /\ ret.facets = << <<"a", "_", "b">>, <<"A">> >>
    /\ ret.res = FALSE

(***************************************************************************)
(* C13: _parse_query_facets(query) gives one facet for each maximal run of *)
(* characters that are neither whitespace nor a comma, in the order of the *)
(* runs, each facet the lowercased, dash-to-underscore run; no facet is    *)
(* empty, and a query without such a run gives the empty list.             *)
(***************************************************************************)
\* The positions of q at which a run of term characters starts.
TermStarts(q) ==
    {a \in 1..Len(q) : /\ q[a] \notin {" ", "\t", "\n", ","}
                        /\ (a = 1 \/ q[a - 1] \in {" ", "\t", "\n", ","})}

\* The last position of the run that starts at a.
TermEnd(q, a) ==
    CHOOSE b \in a..Len(q) :
        /\ \A j \in a..b : q[j] \notin {" ", "\t", "\n", ","}
        /\ (b = Len(q) \/ q[b + 1] \in {" ", "\t", "\n", ","})

\* The i-th smallest element of a set of numbers.
Nth(S, i) == CHOOSE a \in S : Cardinality({x \in S : x < a}) = i - 1

C13_ParseFacetsSplitsOnRuns ==
    ret.op = "_parse_query_facets" =>
        LET q == ret.query
            starts == TermStarts(q)
        IN  /\ Len(ret.res) = Cardinality(starts)
            /\ \A i \in 1..Len(ret.res) :
                   LET a == Nth(starts, i)
                       b == TermEnd(q, a)
                   IN  /\ ret.res[i] # <<>>
                       /\ Len(ret.res[i]) = b - a + 1
                       /\ \A j \in 1..Len(ret.res[i]) :
                              ret.res[i][j] = IF q[a + j - 1] = "-" THEN "_"
                                              ELSE LowerChar(q[a + j - 1])
            /\ (\A j \in 1..Len(q) : q[j] \in {" ", "\t", "\n", ","}) => ret.res = <<>>

\* A query of three terms between runs of mixed separators, with a capital
\* and a dash to normalize.
C13_Witness ==
    /\ ret.op = "_parse_query_facets"
    /\ ret.query = <<"A", ",", " ", ",", "-", " ", "b">>
    /\ ret.res = << <<"a">>, <<"_">>, <<"b">> >>

(***************************************************************************)
(* C17: _normalize_for_match(s) is s with every capital letter lowercased  *)
(* and every dash turned into an underscore, all other characters kept;    *)
(* normalizing the result again changes nothing; and every string that     *)
(* differs from s only in the case of letters or in dash against           *)
(* underscore normalizes to the same string.                               *)
(***************************************************************************)
\* The characters that differ from c at most in case or as dash/underscore.
AlikeChars(c) ==
    IF c \in {"A", "a"} THEN {"A", "a"}
    ELSE IF c \in {"B", "b"} THEN {"B", "b"}
    ELSE IF c \in {"-", "_"} THEN {"-", "_"}
    ELSE {c}

RECURSIVE Variants(_)
\* The strings that differ from s only in case or in dash against underscore.
Variants(s) ==
    IF s = <<>> THEN {<<>>}
    ELSE {<<c>> \o t : c \in AlikeChars(s[1]), t \in Variants(Tail(s))}

C17_NormalizeIdempotentAndCanonical ==
    ret.op = "_normalize_for_match" =>
        /\ Len(ret.res) = Len(ret.s)
        /\ \A j \in 1..Len(ret.s) :
               ret.res[j] = CASE ret.s[j] = "A" -> "a"
                              [] ret.s[j] = "B" -> "b"
                              [] ret.s[j] = "-" -> "_"
                              [] OTHER -> ret.s[j]
        /\ _normalize_for_match(ret.res) = ret.res
        /\ \A t \in Variants(ret.s) : _normalize_for_match(t) = ret.res

\* A string with a capital and a dash, whose normal form differs from it.
C17_Witness ==
    /\ ret.op = "_normalize_for_match"
    /\ ret.s = <<"A", "-", "B">>
    /\ ret.res = <<"a", "_", "b">>
    /\ <<"a", "_", "B">> \in Variants(ret.s)

(***************************************************************************)
(* C14: mask_value gives "*" for every value that is not a string, "***"   *)
(* for every string of 0 to 8 characters, and for a longer string its      *)
(* first two characters, "***", and its last two characters: seven         *)
(* characters, four of them of the input.                                  *)
(***************************************************************************)
C14_MaskShape ==
    ret.op = "mask_value" =>
        LET v == ret.value
        IN  /\ v.tag # "str" => ret.res = <<"*">>
            /\ (v.tag = "str" /\ Len(v.s) <= 8) => ret.res = <<"*", "*", "*">>
            /\ (v.tag = "str" /\ Len(v.s) > 8) =>
                   /\ Len(ret.res) = 7
                   /\ ret.res[1] = v.s[1]
                   /\ ret.res[2] = v.s[2]
                   /\ \A j \in 3..5 : ret.res[j] = "*"
                   /\ ret.res[6] = v.s[Len(v.s) - 1]
                   /\ ret.res[7] = v.s[Len(v.s)]

\* A string of nine characters, masked to its ends.
C14_Witness ==
    /\ ret.op = "mask_value"
    /\ ret.value = StrV(<<"a", "b", "a", "a", "a", "a", "a", "b", "b">>)
    /\ ret.res = <<"a", "b", "*", "*", "*", "b", "b">>

(***************************************************************************)
(* C15: list_secrets(path, query) on an existing file returns the entries  *)
(* of walk on the parsed file whose path holds every term of the query     *)
(* (both normalized), in the order walk yields them, each value masked;    *)
(* without a query, or with a query of no term, it returns every entry of  *)
(* walk, and with a query no path matches it returns the empty list.       *)
(***************************************************************************)
\* The path p holds, once normalized, each normalized term of the query q.
HoldsEveryTerm(p, q) ==
    \A a \in TermStarts(q) :
        \E k \in 0..Len(p) :
            OccursAt(Replace(Lower(p), "-", "_"),
                     Replace(Lower(SubSeq(q, a, TermEnd(q, a))), "-", "_"), k)

C15_ListIsFilteredMaskedWalk ==
    (ret.op = "list_secrets" /\ fs[ret.loc] # None) =>
        LET entries == walk(fs[ret.loc], <<>>)
            kept == IF ret.query = None THEN 1..Len(entries)
                    ELSE {i \in 1..Len(entries) : HoldsEveryTerm(entries[i][1], ret.query.s)}
        IN  /\ ret.res.kind = "return"
            /\ Len(ret.res.value.xs) = Cardinality(kept)
            /\ \A j \in 1..Cardinality(kept) :
                   ret.res.value.xs[j] =
                       <<entries[Nth(kept, j)][1],
                         StrV(mask_value(entries[Nth(kept, j)][2]))>>
            /\ (ret.query # None /\ TermStarts(ret.query.s) = {})
                  => Len(ret.res.value.xs) = Len(entries)
            /\ kept = {} => ret.res.value.xs = <<>>

\* A query of two terms on a file of four entries: three entries hold both
\* terms and are listed in the order of the walk, the long string masked to
\* its ends; the fourth holds one term only and is left out.
C15_Witness ==
    /\ ret.op = "list_secrets"
    /\ ret.query = StrV(<<"a", " ", "B">>)
    /\ fs[ret.loc] # None
    /\ Len(walk(fs[ret.loc], <<>>)) = 4
    /\ ret.res = Return(ListV(<< << <<"A", "-", "b", ".", "k">>, StrV(<<"*", "*", "*">>) >>,
                                 << <<"a", ".", "B">>, StrV(<<"*">>) >>,
                                 << <<"a", ".", "a", "b">>,
                                    StrV(<<"a", "b", "*", "*", "*", "b", "a">>) >> >>))

C18_EmptyPathAlwaysFails ==
    (ret.op = "_deep_get" /\ path = <<>>) => ret.res = NotFound(<<>>)

(***************************************************************************)
(* C18, amended: _deep_get(M, "") raises the KeyError naming '' for every  *)
(* mapping M without the empty string among its top-level keys, and        *)
(* returns the value stored under the empty key when M has it.             *)
(***************************************************************************)
C18_EmptyPathFailsUnlessEmptyKey ==
    (ret.op = "_deep_get" /\ path = <<>>) =>
        /\ (\A i \in 1..Len(dct.items) : dct.items[i][1] # <<>>)
              => ret.res = NotFound(<<>>)
        /\ \A i \in 1..Len(dct.items) :
              dct.items[i][1] = <<>> => ret.res = Return(dct.items[i][2])

\* The empty path was asked of a mapping of two keys, neither of them empty.
C18_Witness ==
    /\ ret.op = "_deep_get"
    /\ path = <<>>
    /\ Len(dct.items) = 2
    /\ \A i \in 1..Len(dct.items) : dct.items[i][1] # <<>>
    /\ ret.res = NotFound(<<>>)

(***************************************************************************)
(* C19: walk and _deep_get round trip: for every mapping M and every entry *)
(* (P, v) that walk(M) yields, _deep_get(M, P) returns v, whatever string  *)
(* keys M has, keys holding a dot included.                                *)
(***************************************************************************)
C19_WalkResolveRoundTrip ==
    ret.op = "walk._deep_get" => ret.res = Return(ret.entry[2])

(***************************************************************************)
(* C20: a v(p) call that raises (KeyError or FileNotFoundError) leaves     *)
(* _cache_v and _cache_t of the store as they were, with no entry for p    *)
(* in _cache_v; and every v(p) call on a path without an entry, a path     *)
(* that failed before included, goes through the load or the lookup again  *)
(* instead of answering from the cache.                                    *)
(***************************************************************************)
C20_FailedValueNotCached ==
    /\ []((ret.op = "v" /\ ret.res.kind = "raise") =>
            ret.path \notin DOMAIN stores[ret.self]._cache_v)
    /\ [][\A s \in Stores :
            (ret'.op = "v" /\ ret'.self = s) =>
               /\ ret'.res.kind = "raise" =>
                     /\ ret'.res.exc \in {"KeyError", "FileNotFoundError"}
                     /\ stores'[s]._cache_v = stores[s]._cache_v
                     /\ stores'[s]._cache_t = stores[s]._cache_t
               /\ ret'.path \notin DOMAIN stores[s]._cache_v =>
                     \/ ret'.events = <<"exists">>
                     \/ ret'.events[Len(ret'.events)] = "_deep_get"]_vars

\* v has just failed on a path missing from the loaded data, while each
\* cache of the store holds an entry for another path.
C20_Witness ==
    /\ ret.op = "v"
    /\ ret.res.kind = "raise"
    /\ ret.res.exc = "KeyError"
    /\ ret.path \notin DOMAIN stores[ret.self]._cache_v
    /\ DOMAIN stores[ret.self]._cache_v # {}
    /\ DOMAIN stores[ret.self]._cache_t # {}

(***************************************************************************)
(* C21: a failed load is not memoized: after a data access has raised      *)
(* FileNotFoundError the slot of data is still empty; every access to data *)
(* of a store whose slot is empty (through data, v or t) checks again that *)
(* the file exists; when the file exists by then, data returns the parsed  *)
(* file and the slot holds it; and a filled slot keeps its mapping.        *)
(***************************************************************************)
C21_FailedLoadNotMemoized ==
    /\ []((ret.op = "data" /\ ret.res.kind = "raise") =>
            /\ ret.res = FileNotFound(ret.loc)
            /\ stores[ret.self].data = None)
    /\ [][\A s \in Stores :
            /\ (ret'.op \in {"data", "v", "t"} /\ ret'.self = s
                   /\ stores[s].data = None) =>
                  /\ ret'.events # <<>>
                  /\ ret'.events[1] = "exists"
                  /\ fs[Loc(s)] = None =>
                        /\ ret'.res = FileNotFound(Loc(s))
                        /\ stores'[s].data = None
                  /\ fs[Loc(s)] # None =>
                        /\ stores'[s].data = fs[Loc(s)]
                        /\ ret'.op = "data" => ret'.res = Return(fs[Loc(s)])
            /\ stores[s].data # None => stores'[s].data = stores[s].data]_vars

\* A data access has just failed on a missing file and left the store
\* unloaded, with nothing in its caches.
C21_Witness ==
    /\ ret.op = "data"
    /\ ret.res = FileNotFound(ret.loc)
    /\ ret.events = <<"exists">>
    /\ fs[ret.loc] = None
    /\ stores[ret.self].data = None
    /\ stores[ret.self]._cache_v = <<>>
    /\ stores[ret.self]._cache_t = <<>>

====
